---- MODULE Spec2Model ----
(***************************************************************************)
(* A model of src/tft_model.py: the quantile loss, the TimeDistributed     *)
(* wrapper, the gated residual network and the forward pass of the         *)
(* Temporal Fusion Transformer.                                            *)
(*                                                                         *)
(* A contiguous tensor is a record [shape, data]: data holds the elements  *)
(* in row-major order, and view() keeps data and replaces shape, as it     *)
(* does in torch.  Indices are 0-based as in the source.                   *)
(***************************************************************************)
EXTENDS Integers, Sequences, FiniteSets, TLC

VARIABLES
    \* pytorch_quantile_loss(y, y_pred, quantile)
    loss_pc, y, y_pred, quantile, loss_exc, loss_ret,
    \* TimeDistributed(module, batch_first).forward(x)
    td_pc, td_module, td_batch_first, td_x, td_y,
    \* GatedResidualNetwork: the network, the input of its forward calls and
    \* the output of the call without context and of the call with a zero one
    grn_pc, grn, grn_x, grn_out, grn_out_zero,
    \* TFT: the configuration, the input batch of a forward call, where the
    \* call stands, the exception it raised, and its locals and results
    tft_pc, config, tft_x, tft_exc, static_embedding, embeddings,
    embeddings_encoder, embeddings_decoder, lstm_encoder_call,
    lstm_decoder_call, encoder_output, hidden, decoder_output, lstm_output,
    attn_input, mask, attn_output, attn_output_weights, output

lossVars == <<loss_pc, y, y_pred, quantile, loss_exc, loss_ret>>
tdVars == <<td_pc, td_module, td_batch_first, td_x, td_y>>
grnVars == <<grn_pc, grn, grn_x, grn_out, grn_out_zero>>
tftVars ==
    <<tft_pc, config, tft_x, tft_exc, static_embedding, embeddings,
      embeddings_encoder, embeddings_decoder, lstm_encoder_call,
      lstm_decoder_call, encoder_output, hidden, decoder_output, lstm_output,
      attn_input, mask, attn_output, attn_output_weights, output>>
vars == <<lossVars, tdVars, grnVars, tftVars>>

\* the variables an operation of one component leaves alone
notLoss == <<tdVars, grnVars, tftVars>>
notTD == <<lossVars, grnVars, tftVars>>
notGRN == <<lossVars, tdVars, tftVars>>
notTFT == <<lossVars, tdVars, grnVars>>

(***************************************************************************)
(* Bounds of the model.                                                    *)
(***************************************************************************)
\* targets and predictions of the loss lie in -MaxVal..MaxVal
MaxVal == 1
\* the two leading axes of a TimeDistributed input have 1..MaxAxis entries
MaxAxis == 2
\* the first element of a TimeDistributed input is one of 0..MaxSeed
MaxSeed == 1
\* an input batch of the TFT has 1..MaxBatch elements
MaxBatch == 2
\* and 2..MaxTime timesteps
MaxTime == 3

(***************************************************************************)
(* Tensors.                                                                *)
(***************************************************************************)
Tensor(shape, data) == [shape |-> shape, data |-> data]

NoTensor == Tensor(<<>>, <<>>)

RECURSIVE Prod(_)
Prod(s) == IF s = <<>> THEN 1 ELSE Head(s) * Prod(Tail(s))

RECURSIVE Flatten(_)
Flatten(ss) == IF ss = <<>> THEN <<>> ELSE Head(ss) \o Flatten(Tail(ss))

Numel(t) == Len(t.data)

Rank(t) == Len(t.shape)

\* x.size(d), d counted from 0; x.size(-1) is the last axis
Size(t, d) == IF d < 0 THEN t.shape[Len(t.shape) + 1 + d] ELSE t.shape[d + 1]

\* the shape view() gives n elements: a -1 entry is inferred from the others
InferShape(n, shape) ==
    LET known == Prod([i \in 1..Len(shape) |->
                          IF shape[i] = -1 THEN 1 ELSE shape[i]])
    IN  [i \in 1..Len(shape) |->
            IF shape[i] = -1
            THEN (IF known = 0 THEN 0 ELSE n \div known)
            ELSE shape[i]]

\* t.view(shape): the same elements in the same order under a new shape
View(t, shape) == Tensor(InferShape(Numel(t), shape), t.data)

\* the number of rows of t, a row being a run along the last axis
NumRows(t) == IF Size(t, -1) = 0 THEN 0 ELSE Numel(t) \div Size(t, -1)

\* row r (from 0) of t
FlatRow(t, r) == SubSeq(t.data, r * Size(t, -1) + 1, (r + 1) * Size(t, -1))

\* t[i][j] of a rank-3 tensor: the run along the last axis
RowAt(t, i, j) == FlatRow(t, i * Size(t, 1) + j)

\* the tensor whose rows are rows, each of width w, under shape lead \o <<w>>
FromRows(lead, w, rows) == Tensor(lead \o <<w>>, Flatten(rows))

(***************************************************************************)
(* pytorch_quantile_loss.  A quantile is the rational num/den, and a loss  *)
(* value a rational num/den with the quantile's denominator.               *)
(***************************************************************************)
Quantile(n, d) == [num |-> n, den |-> d]

\* -0.1, 0, 0.1, 0.5, 0.9, 1, 1.1
Quantiles ==
    { Quantile(0 - 1, 10), Quantile(0, 1), Quantile(1, 10), Quantile(1, 2),
      Quantile(9, 10), Quantile(1, 1), Quantile(11, 10) }

LossShapes == { <<1, 1>>, <<1, 2>>, <<2, 1>> }

LossTensors(shape) ==
    { Tensor(shape, d) : d \in [1..Prod(shape) -> (0 - MaxVal)..MaxVal] }

\* the check with the endpoints 0 and 1 refused as well
IllegalQuantileStrict(q) == q.num <= 0 \/ q.num >= q.den

\* quantile < 0 or quantile > 1
IllegalQuantile(q) == q.num < 0 \/ q.num > q.den

Max(a, b) == IF a >= b THEN a ELSE b

RECURSIVE Sum(_)
Sum(s) == IF s = <<>> THEN 0 ELSE Head(s) + Sum(Tail(s))

\* a Python argument: a tensor or a float
TensorArg(t) == [kind |-> "Tensor", val |-> t]
FloatArg(n) == [kind |-> "float", val |-> n]

Returned(v) == [ok |-> TRUE, val |-> v, exc |-> "none"]
Raised(e) == [ok |-> FALSE, val |-> NoTensor, exc |-> e]

\* torch.max(input, other): the overloads of torch.max with a second argument
\* are (Tensor input, Tensor other), the elementwise maximum, and
\* (Tensor input, int dim), the reduction along dim.  A float second argument
\* matches neither, and the call raises TypeError.
TorchMax(input, other) ==
    IF other.kind = "Tensor"
    THEN Returned(Tensor(input.shape,
            [i \in 1..Numel(input) |-> Max(input.data[i], other.val.data[i])]))
    ELSE Raised("TypeError")

\* y - y_pred
Sub(a, b) == Tensor(a.shape, [i \in 1..Numel(a) |-> a.data[i] - b.data[i]])

Neg(a) == Tensor(a.shape, [i \in 1..Numel(a) |-> 0 - a.data[i]])

\* torch.sum(t, axis=-1) of numerators over the denominator den
SumLastAxis(t, den) ==
    Tensor(SubSeq(t.shape, 1, Len(t.shape) - 1),
           [r \in 1..NumRows(t) |-> [num |-> Sum(FlatRow(t, r - 1)), den |-> den]])

\* quantile * over + (1. - quantile) * under, as numerators over quantile.den
QLoss(q, over, under) ==
    Tensor(over.shape,
        [i \in 1..Numel(over) |->
            q.num * over.data[i] + (q.den - q.num) * under.data[i]])

LossIdle ==
    /\ loss_pc = "idle"
    /\ y = NoTensor
    /\ y_pred = NoTensor
    /\ quantile = Quantile(0, 1)
    /\ loss_exc = "none"
    /\ loss_ret = NoTensor

\* a call of pytorch_quantile_loss with its arguments bound
LossInit ==
    /\ loss_pc = "called"
    /\ \E s \in LossShapes : y \in LossTensors(s) /\ y_pred \in LossTensors(s)
    /\ quantile \in Quantiles
    /\ loss_exc = "none"
    /\ loss_ret = NoTensor

\* lines 18-22: the check of the quantile
CheckQuantile ==
    /\ loss_pc = "called"
    /\ IF IllegalQuantile(quantile)
       THEN loss_pc' = "raised" /\ loss_exc' = "ValueError"
       ELSE loss_pc' = "checked" /\ loss_exc' = loss_exc
    /\ UNCHANGED <<y, y_pred, quantile, loss_ret>>
    /\ UNCHANGED notLoss

\* lines 24-27: the loss itself
ComputeLoss ==
    /\ loss_pc = "checked"
    /\ LET prediction_underflow == Sub(y, y_pred)
           over == TorchMax(prediction_underflow, FloatArg(0))
           under == TorchMax(Neg(prediction_underflow), FloatArg(0))
       IN  IF over.ok /\ under.ok
           THEN /\ loss_pc' = "returned"
                /\ loss_ret' = SumLastAxis(QLoss(quantile, over.val, under.val),
                                           quantile.den)
                /\ loss_exc' = loss_exc
           ELSE /\ loss_pc' = "raised"
                /\ loss_exc' = (IF over.ok THEN under.exc ELSE over.exc)
                /\ loss_ret' = loss_ret
    /\ UNCHANGED <<y, y_pred, quantile>>
    /\ UNCHANGED notLoss

LossNext == CheckQuantile \/ ComputeLoss

(***************************************************************************)
(* TimeDistributed.  A wrapped module is a record; ApplyModule is its      *)
(* forward on a tensor whose rows lie along the last axis.                 *)
(***************************************************************************)
Identity == [kind |-> "Identity"]

\* nn.Linear(in_features, out_features): weight[o][k], bias[o].  The numbers
\* are integers (unit 1) or fixed-point numbers counted in 1/unit.
Linear(weight, bias) ==
    [kind |-> "Linear", weight |-> weight, bias |-> bias, unit |-> 1]

\* nn.Embedding(vocab, dim): table[code + 1] is the vector of code
Embedding(table) == [kind |-> "Embedding", table |-> table]

\* a product of two numbers counted in 1/unit, rounded to the nearest
Mul(a, b, unit) == (a * b + unit \div 2) \div unit

LinearRow(m, row) ==
    [o \in 1..Len(m.weight) |->
        Sum([k \in 1..Len(row) |-> Mul(m.weight[o][k], row[k], m.unit)])
        + m.bias[o]]

(***************************************************************************)
(* Real arithmetic of the gated residual network, in fixed point: a number *)
(* is an integer count of 1/Unit.                                          *)
(***************************************************************************)
Unit == 10 * 100

\* Unit * e^(z/Unit) for z <= 0: halve the argument down to [-1/2, 0], there
\* the Taylor polynomial of degree 5 (in Horner's form), then square back
RECURSIVE ExpFix(_)
ExpFix(z) ==
    IF z < 0 - (Unit \div 2)
    THEN LET h == ExpFix(z \div 2) IN Mul(h, h, Unit)
    ELSE LET t5 == Unit + z \div 5
             t4 == Unit + Mul(z, t5, Unit) \div 4
             t3 == Unit + Mul(z, t4, Unit) \div 3
             t2 == Unit + Mul(z, t3, Unit) \div 2
         IN  Unit + Mul(z, t2, Unit)

\* nn.Sigmoid: 1 / (1 + e^-z)
SigmoidFix(z) ==
    IF z >= 0
    THEN (Unit * Unit) \div (Unit + ExpFix(0 - z))
    ELSE Unit - (Unit * Unit) \div (Unit + ExpFix(z))

\* nn.ELU with alpha 1: z for z > 0, e^z - 1 otherwise
ELUFix(z) == IF z > 0 THEN z ELSE ExpFix(z) - Unit

\* the integer square root, by Newton's iteration from r
RECURSIVE Newton(_, _)
Newton(n, r) ==
    LET r2 == (r + n \div r) \div 2
    IN  IF r2 >= r THEN r ELSE Newton(n, r2)

\* Unit * sqrt(v/Unit)
SqrtFix(v) == IF v <= 0 THEN 0 ELSE Newton(v * Unit, v * Unit)

\* class GLU, lines 53-65: fc1 and fc2 are Linear(input_size, input_size)
GLU(fc1, fc2) == [kind |-> "GLU", fc1 |-> fc1, fc2 |-> fc2]

\* lines 61-65: sigmoid(fc1(x)) * fc2(x)
GLURow(m, row) ==
    LET sig == [k \in 1..Len(row) |-> SigmoidFix(LinearRow(m.fc1, row)[k])]
        lin == LinearRow(m.fc2, row)
    IN  [k \in 1..Len(row) |-> Mul(sig[k], lin[k], Unit)]

\* nn.BatchNorm1d in evaluation mode: its running statistics and its affine
\* weight and bias, one per feature; eps = 1e-5 is below 1/Unit
BatchNorm1d(running_mean, running_var, weight, bias) ==
    [kind |-> "BatchNorm1d", running_mean |-> running_mean,
     running_var |-> running_var, weight |-> weight, bias |-> bias]

\* (x - running_mean) / sqrt(running_var + eps) * weight + bias
BatchNormRow(m, row) ==
    [k \in 1..Len(row) |->
        Mul(((row[k] - m.running_mean[k]) * Unit) \div SqrtFix(m.running_var[k]),
            m.weight[k], Unit)
        + m.bias[k]]

\* A layer of the TFT whose weights are left open.  Its outputs are terms:
\* channel k of what the linear layer called name makes of a row is
\* <<"lin", name, k, row>>, and channel k of the vector an embedding table
\* holds for a code is <<"emb", name, k, code>>.  Equal terms are equal
\* numbers whatever the weights are.
Layer(name, out) == [kind |-> "Layer", name |-> name, out |-> out]
Table(name, out) == [kind |-> "Table", name |-> name, out |-> out]

\* what the module makes of one row
ApplyRow(m, row) ==
    CASE m.kind = "Identity" -> row
      [] m.kind = "Linear" -> LinearRow(m, row)
      [] m.kind = "Embedding" -> Flatten([k \in 1..Len(row) |-> m.table[row[k] + 1]])
      [] m.kind = "GLU" -> GLURow(m, row)
      [] m.kind = "BatchNorm1d" -> BatchNormRow(m, row)
      [] m.kind = "Layer" -> [k \in 1..m.out |-> <<"lin", m.name, k, row>>]

\* the width of the module's output rows for input rows of width w
OutWidth(m, w) ==
    CASE m.kind = "Identity" -> w
      [] m.kind = "Linear" -> Len(m.weight)
      [] m.kind = "Embedding" -> Len(m.table[1])
      [] m.kind = "GLU" -> w
      [] m.kind = "BatchNorm1d" -> w
      [] m.kind = "Layer" -> m.out
      [] m.kind = "Table" -> m.out

\* module(t): Identity and Linear keep the leading axes and map the last one;
\* Embedding looks every element up and appends an axis
ApplyModule(m, t) ==
    IF m.kind = "Embedding"
    THEN Tensor(t.shape \o <<OutWidth(m, 1)>>,
                Flatten([i \in 1..Numel(t) |-> m.table[t.data[i] + 1]]))
    ELSE IF m.kind = "Table"
    THEN Tensor(t.shape \o <<m.out>>,
                Flatten([i \in 1..Numel(t) |->
                            [k \in 1..m.out |-> <<"emb", m.name, k, t.data[i]>>]]))
    ELSE FromRows(SubSeq(t.shape, 1, Len(t.shape) - 1), OutWidth(m, Size(t, -1)),
                  [r \in 1..NumRows(t) |-> ApplyRow(m, FlatRow(t, r - 1))])

\* line 41: x.contiguous().view(-1, x.size(-1))
Squash(x) == View(x, <<0 - 1, Size(x, -1)>>)

\* the restoration with the default mode keyed on axis 0 instead of axis 1
RestoreAxis0(x, yy, batch_first) ==
    IF batch_first
    THEN View(yy, <<Size(x, 0), 0 - 1, Size(yy, -1)>>)
    ELSE View(yy, <<0 - 1, Size(x, 0), Size(yy, -1)>>)

\* lines 46-49: the restored shape of y
Restore(x, yy, batch_first) ==
    IF batch_first
    THEN View(yy, <<Size(x, 0), 0 - 1, Size(yy, -1)>>)
    ELSE View(yy, <<0 - 1, Size(x, 1), Size(yy, -1)>>)

\* lines 35-51
TimeDistributedForward(m, x, batch_first) ==
    IF Rank(x) <= 2
    THEN ApplyModule(m, x)
    ELSE Restore(x, ApplyModule(m, Squash(x)), batch_first)

\* the modules wrapped in the model: the identity, a linear layer from f
\* features to two, and an embedding of the codes 0..MaxSeed+2 into two channels
TDModules(f) ==
    { Identity,
      Linear(<<[k \in 1..f |-> 1], [k \in 1..f |-> k]>>, <<0, 1>>),
      Embedding([c \in 1..(MaxSeed + 3) |-> <<10 * c, 10 * c + 1>>]) }

TDShapes ==
    { <<a, f>> : a \in 1..MaxAxis, f \in 1..2 } \cup
    { <<a, b, f>> : a \in 1..MaxAxis, b \in 1..MaxAxis, f \in 1..2 }

\* element n (from 0) of the input holds (seed + n) % (MaxSeed + 3): neighbours differ
TDInput(shape, seed) ==
    Tensor(shape, [i \in 1..Prod(shape) |-> (seed + i - 1) % (MaxSeed + 3)])

TDIdle ==
    /\ td_pc = "idle"
    /\ td_module = Identity
    /\ td_batch_first = FALSE
    /\ td_x = NoTensor
    /\ td_y = NoTensor

TDInit ==
    /\ td_pc = "called"
    /\ td_batch_first \in BOOLEAN
    /\ \E s \in TDShapes, seed \in 0..MaxSeed :
          /\ td_x = TDInput(s, seed)
          /\ td_module \in
                { m \in TDModules(Size(td_x, -1)) :
                    m.kind = "Embedding" => Size(td_x, -1) = 1 }
    /\ td_y = NoTensor

\* lines 35-51
TDForward ==
    /\ td_pc = "called"
    /\ td_y' = TimeDistributedForward(td_module, td_x, td_batch_first)
    /\ td_pc' = "returned"
    /\ UNCHANGED <<td_module, td_batch_first, td_x>>
    /\ UNCHANGED notTD

TDNext == TDForward

(***************************************************************************)
(* GatedResidualNetwork, with input_size = output_size = 1 and             *)
(* hidden_context_size = 1.  The network is in evaluation mode: nn.Dropout *)
(* is the identity and BatchNorm1d normalises with its running statistics. *)
(***************************************************************************)
\* nn.Linear(1, 1) in fixed point
Linear1(w, b) ==
    [kind |-> "Linear", weight |-> <<<<w>>>>, bias |-> <<b>>, unit |-> Unit]

\* lines 70-88
GatedResidualNetwork(fc1, context, fc2, gate, bn) ==
    [fc1 |-> fc1, context |-> context, fc2 |-> fc2, gate |-> gate, bn |-> bn]

\* a + b, elementwise
Add(a, b) == Tensor(a.shape, [i \in 1..Numel(a) |-> a.data[i] + b.data[i]])

ELU(a) == Tensor(a.shape, [i \in 1..Numel(a) |-> ELUFix(a.data[i])])

\* nn.Dropout in evaluation mode
Dropout(a) == a

\* lines 89-104; a context of NoTensor is the None of the source
GRNForward(g, x, context) ==
    LET residual == x
        x1 == TimeDistributedForward(g.fc1, x, FALSE)
        x2 == IF context # NoTensor
              THEN Add(x1, TimeDistributedForward(g.context, context, FALSE))
              ELSE x1
        x3 == ELU(x2)
        x4 == TimeDistributedForward(g.fc2, x3, FALSE)
        x5 == Dropout(x4)
        x6 == TimeDistributedForward(g.gate, x5, FALSE)
        x7 == Add(x6, residual)
    IN  TimeDistributedForward(g.bn, x7, FALSE)

\* torch.zeros of the shape of t
ZerosLike(t) == Tensor(t.shape, [i \in 1..Numel(t) |-> 0])

\* learned weights: -1 and 1; learned biases: 0 and 1/2
GRNWeights == { 0 - Unit, Unit }
GRNBiases == { 0, Unit \div 2 }

GRNLinears == { Linear1(w, b) : w \in GRNWeights, b \in GRNBiases }

\* the gate's layers and the normalisation take fewer settings
GRNGates ==
    { GLU(Linear1(Unit, b1), Linear1(w2, 0)) : b1 \in GRNBiases, w2 \in GRNWeights }

GRNNorms ==
    { BatchNorm1d(<<rm>>, <<rv>>, <<Unit>>, <<0>>) :
        rm \in GRNBiases, rv \in { Unit, 4 * Unit } }

GRNShapes == { <<a, b, 1>> : a \in 1..MaxAxis, b \in 1..MaxAxis }

\* element n (from 0) of the input is -1, 0 or 1, by (seed + n) % 3
GRNInput(shape, seed) ==
    Tensor(shape, [i \in 1..Prod(shape) |-> (((seed + i - 1) % 3) - 1) * Unit])

GRNIdle ==
    /\ grn_pc = "idle"
    /\ grn = GatedResidualNetwork(Identity, Identity, Identity, Identity, Identity)
    /\ grn_x = NoTensor
    /\ grn_out = NoTensor
    /\ grn_out_zero = NoTensor

GRNInit ==
    /\ grn_pc = "built"
    /\ \E fc1 \in GRNLinears, context \in GRNLinears, fc2 \in GRNLinears,
          gate \in GRNGates, bn \in GRNNorms :
          grn = GatedResidualNetwork(fc1, context, fc2, gate, bn)
    /\ \E s \in GRNShapes, seed \in 0..MaxSeed : grn_x = GRNInput(s, seed)
    /\ grn_out = NoTensor
    /\ grn_out_zero = NoTensor

\* forward(x): no context
GRNCall ==
    /\ grn_pc = "built"
    /\ grn_out = NoTensor
    /\ grn_out' = GRNForward(grn, grn_x, NoTensor)
    /\ UNCHANGED <<grn_pc, grn, grn_x, grn_out_zero>>
    /\ UNCHANGED notGRN

\* forward(x, c) with c the all-zero context
GRNCallZeroContext ==
    /\ grn_pc = "built"
    /\ grn_out_zero = NoTensor
    /\ grn_out_zero' = GRNForward(grn, grn_x, ZerosLike(grn_x))
    /\ UNCHANGED <<grn_pc, grn, grn_x, grn_out>>
    /\ UNCHANGED notGRN

GRNNext == GRNCall \/ GRNCallZeroContext

(***************************************************************************)
(* TFT.  The configuration's counts and sizes are bounds of the model;     *)
(* batch_size and encode_length vary with the state.  The weights are left *)
(* open: the embeddings, the recurrent layers, the static enrichment and   *)
(* the attention yield terms over their inputs (see Layer and Table).      *)
(***************************************************************************)
static_variables == 1
time_varying_categoical_variables == 1
time_varying_real_variables == 1
embedding_dim == 1
hidden_size == 1
lstm_layers == 1
\* config['static_embedding_vocab_sizes'][i] and
\* config['time_varying_embedding_vocab_sizes'][i], the same for every i
static_vocab_size == 2
time_varying_vocab_size == 2

\* lines 122-137 and 160
static_embedding_layers(i) == Table(<<"static_embedding_layers", i>>, embedding_dim)
time_varying_embedding_layers(i) ==
    Table(<<"time_varying_embedding_layers", i>>, embedding_dim)
time_varying_linear_layers(i) ==
    Layer(<<"time_varying_linear_layers", i>>, embedding_dim)
output_layer == Layer(<<"output_layer", 0>>, 1)

Min(a, b) == IF a <= b THEN a ELSE b

\* t[..., i]: entry i (from 0) of every row; the last axis goes
SelectLast(t, i) ==
    Tensor(SubSeq(t.shape, 1, Len(t.shape) - 1),
           [r \in 1..NumRows(t) |-> FlatRow(t, r - 1)[i + 1]])

\* t[:, j] of a rank-3 tensor
SelectDim1(t, j) ==
    FromRows(<<Size(t, 0)>>, Size(t, -1),
             [a \in 1..Size(t, 0) |-> RowAt(t, a - 1, j)])

\* t[:, lo:hi, :] of a rank-3 tensor
SliceDim1(t, lo, hi) ==
    LET w == Max(Min(hi, Size(t, 1)) - Min(lo, Size(t, 1)), 0)
    IN  FromRows(<<Size(t, 0), w>>, Size(t, -1),
                 [r \in 1..(Size(t, 0) * w) |->
                     RowAt(t, (r - 1) \div w, lo + ((r - 1) % w))])

\* t[lo:, :, :] of a rank-3 tensor
SliceDim0(t, lo) ==
    LET from == Min(lo, Size(t, 0))
    IN  Tensor(<<Size(t, 0) - from, Size(t, 1), Size(t, 2)>>,
               SubSeq(t.data, from * Size(t, 1) * Size(t, 2) + 1, Numel(t)))

\* torch.cat(ts) and torch.cat(ts, dim=0)
CatDim0(ts) ==
    Tensor(<<Sum([i \in 1..Len(ts) |-> Size(ts[i], 0)])>> \o Tail(ts[1].shape),
           Flatten([i \in 1..Len(ts) |-> ts[i].data]))

\* torch.cat(ts, dim) along the last axis
CatLast(ts) ==
    FromRows(SubSeq(ts[1].shape, 1, Len(ts[1].shape) - 1),
             Sum([i \in 1..Len(ts) |-> Size(ts[i], -1)]),
             [r \in 1..NumRows(ts[1]) |->
                 Flatten([i \in 1..Len(ts) |-> FlatRow(ts[i], r - 1)])])

\* n copies of t in a list: n*[t]
Copies(n, t) == [i \in 1..n |-> t]

\* lines 219-224: the static embedding of the first timestep's codes
StaticEmbedding(batch) ==
    CatLast([i \in 1..static_variables |->
        ApplyModule(static_embedding_layers(i - 1),
                    SelectLast(SelectDim1(batch.identifier, 0), i - 1))])

\* lines 181-183: the static embedding repeated for the timesteps of like
RepeatStatic(static, like) ==
    View(CatDim0(Copies(Size(like, 1), static)),
         <<Size(like, 0), Size(like, 1), 0 - 1>>)

\* lines 165-188: the concatenated embeddings and the tensor returned
ApplyEmbedding(xw, static) ==
    LET column(i) == View(SelectLast(xw, i), <<Size(xw, 0), 0 - 1, 1>>)
        time_varying_real_embedding ==
            CatLast([i \in 1..time_varying_real_variables |->
                TimeDistributedForward(time_varying_linear_layers(i - 1),
                                       column(i - 1), TRUE)])
        time_varying_categoical_embedding ==
            CatLast([i \in 1..time_varying_categoical_variables |->
                TimeDistributedForward(time_varying_embedding_layers(i - 1),
                    column(time_varying_real_variables + i - 1), TRUE)])
        cat == CatLast(<<RepeatStatic(static, time_varying_categoical_embedding),
                         time_varying_categoical_embedding,
                         time_varying_real_embedding>>)
    IN  [embeddings |-> cat,
         ret |-> View(cat, <<0 - 1, Size(xw, 0), Size(cat, 2)>>)]

\* lines 162-163
InitHidden(cfg) ==
    Tensor(<<lstm_layers, cfg.batch_size, hidden_size>>,
           [i \in 1..(lstm_layers * cfg.batch_size * hidden_size) |-> <<"zero">>])

\* nn.LSTM of lstm_layers layers on input (time, batch, channel) from the state
\* (h0, c0): channel k of the hidden state of layer l of sequence n after t
\* steps is the term <<"h", <<name, l>>, k, s>> and of its cell state
\* <<"c", <<name, l>>, k, s>>, s being the initial states of sequence n in the
\* layers up to l and the sequence's first t inputs.  The output is the hidden
\* state of the last layer at every step.  A state for another number of
\* sequences than the input's raises RuntimeError.
LSTM(name, input, h0, c0) ==
    IF Size(input, 1) # Size(h0, 1) \/ Size(input, 1) # Size(c0, 1)
    THEN [ok |-> FALSE, exc |-> "RuntimeError", output |-> NoTensor,
          h0 |-> h0, c0 |-> c0, h_n |-> NoTensor, c_n |-> NoTensor]
    ELSE LET steps == Size(input, 0)
             n_seq == Size(input, 1)
             seen(t, n, l) == <<[m \in 1..l |-> RowAt(h0, m - 1, n)],
                                [m \in 1..l |-> RowAt(c0, m - 1, n)],
                                [u \in 1..t |-> RowAt(input, u - 1, n)]>>
             state(tag, t, n, l) ==
                 [k \in 1..hidden_size |-> <<tag, <<name, l>>, k, seen(t, n, l)>>]
         IN  [ok |-> TRUE, exc |-> "none",
              output |-> FromRows(<<steps, n_seq>>, hidden_size,
                            [r \in 1..(steps * n_seq) |->
                                state("h", (r - 1) \div n_seq + 1,
                                      (r - 1) % n_seq, lstm_layers)]),
              h0 |-> h0, c0 |-> c0,
              h_n |-> FromRows(<<lstm_layers, n_seq>>, hidden_size,
                          [r \in 1..(lstm_layers * n_seq) |->
                              state("h", steps, (r - 1) % n_seq,
                                    (r - 1) \div n_seq + 1)]),
              c_n |-> FromRows(<<lstm_layers, n_seq>>, hidden_size,
                          [r \in 1..(lstm_layers * n_seq) |->
                              state("c", steps, (r - 1) % n_seq,
                                    (r - 1) \div n_seq + 1)])]

\* lines 190-197: the call of lstm_encoder; hid = NoTensor is hidden=None
Encode(cfg, xe, hid) ==
    LET h == IF hid = NoTensor THEN InitHidden(cfg) ELSE hid
    IN  LSTM("lstm_encoder", xe, h, h)

\* lines 199-206 as called at line 230: the call of lstm_decoder with the
\* hidden that encode returned, enc being the encoder's call
Decode(cfg, xd, enc) ==
    LET hid == enc.h_n
        h == IF hid = NoTensor THEN InitHidden(cfg) ELSE hid
    IN  LSTM("lstm_decoder", xd, h, h)

\* line 233: the static-enrichment network on rows of terms, the network being
\* in evaluation mode: channel k of a row is a term over the row and the
\* context's row
StaticEnrichment(xs, context) ==
    FromRows(SubSeq(xs.shape, 1, Len(xs.shape) - 1), hidden_size,
        [r \in 1..NumRows(xs) |->
            [k \in 1..hidden_size |->
                <<"grn", <<"static_enrichment", 0>>, k,
                  <<FlatRow(xs, r - 1), FlatRow(context, r - 1)>>>>]])

\* torch.ones(n, m)
Ones(n, m) == Tensor(<<n, m>>, [i \in 1..(n * m) |-> "1.0"])

\* entry (i, j) of a matrix
At(t, i, j) == t.data[i * Size(t, 1) + j + 1]

\* torch.triu(t): the entries below the diagonal become zero
Triu(t) ==
    Tensor(t.shape,
        [e \in 1..Numel(t) |->
            IF (e - 1) % Size(t, 1) >= (e - 1) \div Size(t, 1)
            THEN t.data[e] ELSE "0.0"])

\* t == v, elementwise: a tensor of booleans
Eq(t, v) == Tensor(t.shape, [e \in 1..Numel(t) |-> t.data[e] = v])

\* t.transpose(0, 1) of a matrix
Transpose(t) ==
    Tensor(<<Size(t, 1), Size(t, 0)>>,
        [e \in 1..Numel(t) |->
            At(t, (e - 1) % Size(t, 0), (e - 1) \div Size(t, 0))])

\* t.float() of a tensor of booleans
Float(t) ==
    Tensor(t.shape, [e \in 1..Numel(t) |-> IF t.data[e] THEN "1.0" ELSE "0.0"])

\* t.masked_fill(where, v)
MaskedFill(t, where, v) ==
    Tensor(t.shape, [e \in 1..Numel(t) |-> IF where.data[e] THEN v ELSE t.data[e]])

\* the mask built without the transpose
GenerateMaskUntransposed(sz) ==
    LET m == Eq(Triu(Ones(sz, sz)), "1.0")
    IN  MaskedFill(MaskedFill(Float(m), Eq(m, FALSE), "-inf"), Eq(m, TRUE), "0.0")

\* lines 208-211; mask == 0 and mask == 1 are taken of the boolean mask
GenerateSquareSubsequentMask(sz) ==
    LET m == Transpose(Eq(Triu(Ones(sz, sz)), "1.0"))
    IN  MaskedFill(MaskedFill(Float(m), Eq(m, FALSE), "-inf"), Eq(m, TRUE), "0.0")

\* nn.MultiheadAttention on (time, batch, channel) tensors under an additive
\* mask: channel k of the output at position p of sequence n is a term over
\* the query's row at (p, n) and the rows of key and value at the positions
\* whose mask entry is not -inf; the others are barred.  The weights have
\* shape (batch, time, time): entry (n, p, j) is zero where barred.
Barred == [k \in 1..hidden_size |-> <<"barred">>]

MultiheadAttention(query, key, value, attn_mask) ==
    LET len == Size(query, 0)
        n_seq == Size(query, 1)
        src == Size(key, 0)
        visible(t, p, n) ==
            [j \in 1..src |->
                IF At(attn_mask, p, j - 1) = "-inf" THEN Barred
                ELSE RowAt(t, j - 1, n)]
    IN  [attn_output |->
            FromRows(<<len, n_seq>>, hidden_size,
                [r \in 1..(len * n_seq) |->
                    LET p == (r - 1) \div n_seq
                        n == (r - 1) % n_seq
                    IN  [k \in 1..hidden_size |->
                            <<"attn", <<"multihead_attn", 0>>, k,
                              <<RowAt(query, p, n), visible(key, p, n),
                                visible(value, p, n)>>>>]]),
         attn_output_weights |->
            Tensor(<<n_seq, len, src>>,
                [e \in 1..(n_seq * len * src) |->
                    LET n == (e - 1) \div (len * src)
                        p == ((e - 1) \div src) % len
                        j == (e - 1) % src
                    IN  IF At(attn_mask, p, j) = "-inf" THEN <<"zero">>
                        ELSE <<"softmax", <<"multihead_attn", 0>>, j,
                               <<RowAt(query, p, n), visible(key, p, n)>>>>])]

\* the slice taken one position late
SliceAttnLate(t, encode_length) == SliceDim0(t, encode_length + 1)

\* line 238: attn_output[self.encode_length:,:,:]
SliceAttn(t, encode_length) == SliceDim0(t, encode_length)

\* line 239
Project(cfg, attn) ==
    TimeDistributedForward(output_layer,
        View(attn, <<cfg.batch_size, 0 - 1, hidden_size>>), TRUE)

\* an input batch of b elements and t timesteps: the static codes are those of
\* code at every timestep; the real reading at (i, j) is i*t + j and the
\* categorical code (i + j) % time_varying_vocab_size, shifted by the number
\* of the variable
InputBatch(b, t, code) ==
    [identifier |->
        FromRows(<<b, t>>, static_variables,
            [r \in 1..(b * t) |->
                [v \in 1..static_variables |-> code[(r - 1) \div t + 1]]]),
     inputs |->
        FromRows(<<b, t>>,
            time_varying_real_variables + time_varying_categoical_variables,
            [r \in 1..(b * t) |->
                [v \in 1..(time_varying_real_variables
                           + time_varying_categoical_variables) |->
                    IF v <= time_varying_real_variables
                    THEN (r - 1) + (v - 1)
                    ELSE ((r - 1) \div t + ((r - 1) % t) + v)
                         % time_varying_vocab_size]])]

NoCall ==
    [ok |-> FALSE, exc |-> "none", output |-> NoTensor, h0 |-> NoTensor,
     c0 |-> NoTensor, h_n |-> NoTensor, c_n |-> NoTensor]

TFTLocalsUnset ==
    /\ tft_exc = "none"
    /\ static_embedding = NoTensor
    /\ embeddings = NoTensor
    /\ embeddings_encoder = NoTensor
    /\ embeddings_decoder = NoTensor
    /\ lstm_encoder_call = NoCall
    /\ lstm_decoder_call = NoCall
    /\ encoder_output = NoTensor
    /\ hidden = NoTensor
    /\ decoder_output = NoTensor
    /\ lstm_output = NoTensor
    /\ attn_input = NoTensor
    /\ mask = NoTensor
    /\ attn_output = NoTensor
    /\ attn_output_weights = NoTensor
    /\ output = NoTensor

TFTIdle ==
    /\ tft_pc = "idle"
    /\ config = [batch_size |-> 1, encode_length |-> 1]
    /\ tft_x = [identifier |-> NoTensor, inputs |-> NoTensor]
    /\ TFTLocalsUnset

\* a model built from a configuration and an input batch longer than the
\* encoder window
TFTInit ==
    /\ tft_pc = "built"
    /\ \E bs \in 1..MaxBatch, el \in 1..(MaxTime - 1) :
          config = [batch_size |-> bs, encode_length |-> el]
    /\ \E b \in 1..MaxBatch, t \in 2..MaxTime :
          /\ t > config.encode_length
          /\ \E code \in [1..b -> 0..(static_vocab_size - 1)] :
                tft_x = InputBatch(b, t, code)
    /\ TFTLocalsUnset

\* a call of _generate_square_subsequent_mask(sz) on the model
MaskCall ==
    /\ tft_pc = "built"
    /\ \E sz \in 1..(MaxTime + 1) : mask' = GenerateSquareSubsequentMask(sz)
    /\ tft_pc' = "mask_returned"
    /\ UNCHANGED <<config, tft_x, tft_exc, static_embedding, embeddings,
                   embeddings_encoder, embeddings_decoder, lstm_encoder_call,
                   lstm_decoder_call, encoder_output, hidden, decoder_output,
                   lstm_output, attn_input, attn_output, attn_output_weights,
                   output>>
    /\ UNCHANGED notTFT

\* forward, lines 219-224
ForwardStatic ==
    /\ tft_pc = "built"
    /\ static_embedding' = StaticEmbedding(tft_x)
    /\ tft_pc' = "static_embedded"
    /\ UNCHANGED <<config, tft_x, tft_exc, embeddings, embeddings_encoder,
                   embeddings_decoder, lstm_encoder_call, lstm_decoder_call,
                   encoder_output, hidden, decoder_output, lstm_output,
                   attn_input, mask, attn_output, attn_output_weights, output>>
    /\ UNCHANGED notTFT

\* forward, line 226
ForwardEmbedEncoder ==
    /\ tft_pc = "static_embedded"
    /\ LET r == ApplyEmbedding(
                    SliceDim1(tft_x.inputs, 0, config.encode_length),
                    static_embedding)
       IN  embeddings' = r.embeddings /\ embeddings_encoder' = r.ret
    /\ tft_pc' = "encoder_embedded"
    /\ UNCHANGED <<config, tft_x, tft_exc, static_embedding,
                   embeddings_decoder, lstm_encoder_call, lstm_decoder_call,
                   encoder_output, hidden, decoder_output, lstm_output,
                   attn_input, mask, attn_output, attn_output_weights, output>>
    /\ UNCHANGED notTFT

\* forward, line 227
ForwardEmbedDecoder ==
    /\ tft_pc = "encoder_embedded"
    /\ LET r == ApplyEmbedding(
                    SliceDim1(tft_x.inputs, config.encode_length,
                              Size(tft_x.inputs, 1)),
                    static_embedding)
       IN  embeddings' = r.embeddings /\ embeddings_decoder' = r.ret
    /\ tft_pc' = "decoder_embedded"
    /\ UNCHANGED <<config, tft_x, tft_exc, static_embedding,
                   embeddings_encoder, lstm_encoder_call, lstm_decoder_call,
                   encoder_output, hidden, decoder_output, lstm_output,
                   attn_input, mask, attn_output, attn_output_weights, output>>
    /\ UNCHANGED notTFT

\* forward, line 229
ForwardEncode ==
    /\ tft_pc = "decoder_embedded"
    /\ LET call == Encode(config, embeddings_encoder, NoTensor)
       IN  /\ lstm_encoder_call' = call
           /\ encoder_output' = call.output
           /\ hidden' = call.h_n
           /\ tft_exc' = call.exc
           /\ tft_pc' = IF call.ok THEN "encoded" ELSE "raised"
    /\ UNCHANGED <<config, tft_x, static_embedding, embeddings,
                   embeddings_encoder, embeddings_decoder, lstm_decoder_call,
                   decoder_output, lstm_output, attn_input, mask, attn_output,
                   attn_output_weights, output>>
    /\ UNCHANGED notTFT

\* forward, line 230
ForwardDecode ==
    /\ tft_pc = "encoded"
    /\ LET call == Decode(config, embeddings_decoder, lstm_encoder_call)
       IN  /\ lstm_decoder_call' = call
           /\ decoder_output' = call.output
           /\ tft_exc' = call.exc
           /\ tft_pc' = IF call.ok THEN "decoded" ELSE "raised"
    /\ UNCHANGED <<config, tft_x, static_embedding, embeddings,
                   embeddings_encoder, embeddings_decoder, lstm_encoder_call,
                   encoder_output, hidden, lstm_output, attn_input, mask,
                   attn_output, attn_output_weights, output>>
    /\ UNCHANGED notTFT

\* forward, lines 231-233
ForwardEnrich ==
    /\ tft_pc = "decoded"
    /\ LET both == CatDim0(<<encoder_output, decoder_output>>)
           repeated == View(CatDim0(Copies(Size(both, 0), static_embedding)),
                            <<Size(both, 0), Size(both, 1), 0 - 1>>)
       IN  /\ lstm_output' = both
           /\ static_embedding' = repeated
           /\ attn_input' = StaticEnrichment(both, repeated)
    /\ tft_pc' = "enriched"
    /\ UNCHANGED <<config, tft_x, tft_exc, embeddings, embeddings_encoder,
                   embeddings_decoder, lstm_encoder_call, lstm_decoder_call,
                   encoder_output, hidden, decoder_output, mask, attn_output,
                   attn_output_weights, output>>
    /\ UNCHANGED notTFT

\* forward, line 235
ForwardMask ==
    /\ tft_pc = "enriched"
    /\ mask' = GenerateSquareSubsequentMask(Size(attn_input, 0))
    /\ tft_pc' = "masked"
    /\ UNCHANGED <<config, tft_x, tft_exc, static_embedding, embeddings,
                   embeddings_encoder, embeddings_decoder, lstm_encoder_call,
                   lstm_decoder_call, encoder_output, hidden, decoder_output,
                   lstm_output, attn_input, attn_output, attn_output_weights,
                   output>>
    /\ UNCHANGED notTFT

\* forward, line 237
ForwardAttend ==
    /\ tft_pc = "masked"
    /\ LET r == MultiheadAttention(attn_input, attn_input, lstm_output, mask)
       IN  /\ attn_output' = r.attn_output
           /\ attn_output_weights' = r.attn_output_weights
    /\ tft_pc' = "attended"
    /\ UNCHANGED <<config, tft_x, tft_exc, static_embedding, embeddings,
                   embeddings_encoder, embeddings_decoder, lstm_encoder_call,
                   lstm_decoder_call, encoder_output, hidden, decoder_output,
                   lstm_output, attn_input, mask, output>>
    /\ UNCHANGED notTFT

\* forward, lines 238-243
ForwardProject ==
    /\ tft_pc = "attended"
    /\ LET sliced == SliceAttn(attn_output, config.encode_length)
       IN  /\ attn_output' = sliced
           /\ output' = Project(config, sliced)
    /\ tft_pc' = "returned"
    /\ UNCHANGED <<config, tft_x, tft_exc, static_embedding, embeddings,
                   embeddings_encoder, embeddings_decoder, lstm_encoder_call,
                   lstm_decoder_call, encoder_output, hidden, decoder_output,
                   lstm_output, attn_input, mask, attn_output_weights>>
    /\ UNCHANGED notTFT

TFTNext ==
    \/ MaskCall
    \/ ForwardStatic
    \/ ForwardEmbedEncoder
    \/ ForwardEmbedDecoder
    \/ ForwardEncode
    \/ ForwardDecode
    \/ ForwardEnrich
    \/ ForwardMask
    \/ ForwardAttend
    \/ ForwardProject

(***************************************************************************)
(* Properties of pytorch_quantile_loss.                                    *)
(***************************************************************************)
\* quantile * max(y - y_pred, 0) + (1 - quantile) * max(y_pred - y, 0) summed
\* over row r, as a numerator over q.den
PinballRow(t, p, q, r) ==
    Sum([k \in 1..Size(t, -1) |->
            q.num * Max(FlatRow(t, r)[k] - FlatRow(p, r)[k], 0)
            + (q.den - q.num) * Max(FlatRow(p, r)[k] - FlatRow(t, r)[k], 0)])

Abs(a) == IF a >= 0 THEN a ELSE 0 - a

\* the absolute error summed over row r
AbsErrorRow(t, p, r) ==
    Sum([k \in 1..Size(t, -1) |-> Abs(FlatRow(t, r)[k] - FlatRow(p, r)[k])])

InUnitInterval(q) == 0 <= q.num /\ q.num <= q.den

LossEnded == loss_pc \in {"raised", "returned"}

\* C1: for a quantile in [0,1] the call returns, for each row, the pinball
\* loss summed over the last axis; the value is never negative and at
\* quantile 1/2 it is half the summed absolute error.
C1_ReturnsPinballLoss ==
    (LossEnded /\ InUnitInterval(quantile)) =>
        /\ loss_pc = "returned"
        /\ loss_ret.shape = SubSeq(y.shape, 1, Len(y.shape) - 1)
        /\ \A r \in 1..NumRows(y) :
              /\ loss_ret.data[r] =
                    [num |-> PinballRow(y, y_pred, quantile, r - 1),
                     den |-> quantile.den]
              /\ loss_ret.data[r].num >= 0
              /\ (quantile = Quantile(1, 2) =>
                    loss_ret.data[r].num = AbsErrorRow(y, y_pred, r - 1))

\* C2: a quantile below 0 or above 1 ends the call in an error with no loss
\* value returned; for a quantile in [0,1], 0 and 1 included, the call
\* passes the quantile check and no ValueError is ever raised.
C2_QuantileValidated ==
    /\ (loss_pc # "called" /\ ~InUnitInterval(quantile)) =>
          /\ loss_pc = "raised"
          /\ loss_exc = "ValueError"
          /\ loss_ret = NoTensor
    /\ (loss_pc # "called" /\ InUnitInterval(quantile)) =>
          loss_exc # "ValueError"

C2_Witness ==
    /\ loss_pc = "raised"
    /\ loss_exc = "ValueError"
    /\ quantile = Quantile(11, 10)
    /\ y # y_pred

(***************************************************************************)
(* Properties of TimeDistributed.                                          *)
(***************************************************************************)
\* C3: on a rank-3 input of shape (axis0, axis1, features), in both modes,
\* the output has shape (axis0, axis1, output_features) and its entry (i, j)
\* is the wrapped transformation of x[i][j]; wrapping the identity returns
\* the input.
C3_AppliesModulePerRow ==
    (td_pc = "returned" /\ Rank(td_x) = 3) =>
        /\ td_y.shape = <<Size(td_x, 0), Size(td_x, 1),
                          Len(ApplyRow(td_module, RowAt(td_x, 0, 0)))>>
        /\ \A i \in 0..(Size(td_x, 0) - 1), j \in 0..(Size(td_x, 1) - 1) :
              RowAt(td_y, i, j) = ApplyRow(td_module, RowAt(td_x, i, j))
        /\ td_module = Identity => td_y = td_x

C3_Witness ==
    /\ td_pc = "returned"
    /\ Rank(td_x) = 3
    /\ Size(td_x, 0) # Size(td_x, 1)
    /\ Size(td_x, -1) = 2
    /\ td_module.kind = "Linear"
    /\ ~td_batch_first

(***************************************************************************)
(* Properties of GatedResidualNetwork.                                     *)
(***************************************************************************)
\* C4: for every input and every setting of the weights and biases, the
\* call without context returns what the call with an all-zero context
\* returns.
C4_NoContextIsZeroContext ==
    (grn_out # NoTensor /\ grn_out_zero # NoTensor) => grn_out = grn_out_zero

(***************************************************************************)
(* Properties of TFT.                                                      *)
(***************************************************************************)
BatchOf(t) == Size(t, 0)

TimeOf(t) == Size(t, 1)

ForwardEnded == tft_pc \in {"raised", "returned"}

\* C5: for a batch of batch_size elements and of more timesteps than
\* encode_length, forward returns a forecast of shape
\* (batch_size, timesteps - encode_length, 1).
C5_ForecastShape ==
    (/\ ForwardEnded
     /\ BatchOf(tft_x.inputs) = config.batch_size
     /\ TimeOf(tft_x.inputs) > config.encode_length) =>
        /\ tft_pc = "returned"
        /\ output.shape = <<config.batch_size,
                            TimeOf(tft_x.inputs) - config.encode_length, 1>>

C5_Witness ==
    /\ tft_pc = "returned"
    /\ config.batch_size = 2
    /\ config.encode_length = 1
    /\ output.shape = <<2, 2, 1>>

\* C6: the mask of size sz is an sz-by-sz matrix with -inf at every (i, j)
\* with j > i and 0 at every (i, j) with j <= i; in forward its size is the
\* length of the attention's input.
C6_CausalMask ==
    (mask # NoTensor) =>
        /\ mask.shape = <<Size(mask, 0), Size(mask, 0)>>
        /\ Size(mask, 0) >= 1
        /\ Numel(mask) = Size(mask, 0) * Size(mask, 0)
        /\ \A i \in 0..(Size(mask, 0) - 1), j \in 0..(Size(mask, 0) - 1) :
              At(mask, i, j) = (IF j > i THEN "-inf" ELSE "0.0")
        /\ tft_pc = "masked" => Size(mask, 0) = TimeOf(tft_x.inputs)

C6_Witness ==
    /\ tft_pc = "masked"
    /\ Size(mask, 0) = 3
    /\ At(mask, 1, 2) = "-inf"
    /\ At(mask, 1, 1) = "0.0"

\* apply_embedding has just returned, in a call of forward on a batch of
\* batch_size elements
JustEmbedded ==
    /\ tft_pc \in {"encoder_embedded", "decoder_embedded"}
    /\ BatchOf(tft_x.inputs) = config.batch_size

\* what the apply_embedding call just made has returned
EmbeddingReturned ==
    IF tft_pc = "encoder_embedded" THEN embeddings_encoder ELSE embeddings_decoder

\* C7: in the tensor apply_embedding concatenates, the static channels at
\* (b, t) are the static embedding of batch element b, for every b and t.
C7_StaticRepeatedOverTime ==
    JustEmbedded =>
        \A b \in 0..(BatchOf(embeddings) - 1), t \in 0..(TimeOf(embeddings) - 1) :
            SubSeq(RowAt(embeddings, b, t), 1, Size(static_embedding, -1))
                = FlatRow(static_embedding, b)

\* C8: apply_embedding returns a (time, batch, channel) tensor whose entry
\* (t, b) is the channel vector of the concatenated embedding at (b, t).
C8_ReorderedTimeMajor ==
    JustEmbedded =>
        /\ EmbeddingReturned.shape =
              <<TimeOf(embeddings), BatchOf(embeddings), Size(embeddings, 2)>>
        /\ \A t \in 0..(TimeOf(embeddings) - 1), b \in 0..(BatchOf(embeddings) - 1) :
              RowAt(EmbeddingReturned, t, b) = RowAt(embeddings, b, t)

AllZero(t) == \A i \in 1..Numel(t) : t.data[i] = <<"zero">>

\* C9: the encoder runs from zero hidden and cell states, the decoder starts
\* only after the encoder has finished, and the decoder's initial (hidden,
\* cell) is the encoder's final (hidden, cell).
C9_DecoderStartsFromEncoderState ==
    /\ (lstm_encoder_call # NoCall) =>
          /\ AllZero(lstm_encoder_call.h0)
          /\ AllZero(lstm_encoder_call.c0)
    /\ (lstm_decoder_call # NoCall) =>
          /\ lstm_encoder_call.ok
          /\ lstm_decoder_call.h0 = lstm_encoder_call.h_n
          /\ lstm_decoder_call.c0 = lstm_encoder_call.c_n

\* C10: the forecast at (b, d) is the output projection of the attended
\* vector at position encode_length + d of batch element b, which is row
\* (d, b) of the attended output returned.
C10_ForecastFromOwnPosition ==
    (tft_pc = "returned") =>
        \A b \in 0..(config.batch_size - 1), d \in 0..(Size(attn_output, 0) - 1) :
            RowAt(output, b, d) = ApplyRow(output_layer, RowAt(attn_output, d, b))

(***************************************************************************)
(* Specifications.                                                         *)
(***************************************************************************)
InitLoss == LossInit /\ TDIdle /\ GRNIdle /\ TFTIdle

SpecLoss == InitLoss /\ [][LossNext]_vars

InitTD == TDInit /\ LossIdle /\ GRNIdle /\ TFTIdle

InitGRN == GRNInit /\ LossIdle /\ TDIdle /\ TFTIdle

SpecGRN == InitGRN /\ [][GRNNext]_vars

InitTFT == TFTInit /\ LossIdle /\ TDIdle /\ GRNIdle

SpecTFT == InitTFT /\ [][TFTNext]_vars

SpecTD == InitTD /\ [][TDNext]_vars

\* every component at once: one of them is in use, the others idle
Init == InitLoss \/ InitTD \/ InitGRN \/ InitTFT

Next == LossNext \/ TDNext \/ GRNNext \/ TFTNext

Spec == Init /\ [][Next]_vars

====
